---------------------------- MODULE Spec2Model ----------------------------
(***************************************************************************)
(* A model of analyticapp.py, a Streamlit script.  Streamlit runs the      *)
(* whole script from the top on every user interaction (a "pass").  The    *)
(* state is what survives between passes (the uploaded file and the values *)
(* of the widgets) together with what the last pass produced: the tables   *)
(* df and df_copy, the date-like list, the tabs and the page elements.     *)
(*                                                                         *)
(* Text is a sequence of one-character strings, so that the separator      *)
(* test of the classifier, the parsing done by read_csv / to_datetime and  *)
(* the case changes are computed character by character.                   *)
(***************************************************************************)
EXTENDS Integers, Sequences, FiniteSets, TLC

(***************************************************************************)
(* Bounds of the model.                                                    *)
(***************************************************************************)
\* longest list the "Select columns to visualize" multiselect is given
MaxSelected == 2
\* most columns the "Drop rows with nulls in" multiselect is given
MaxDrop == 1

(***************************************************************************)
(* Characters and text                                                     *)
(***************************************************************************)
Digits == <<"0", "1", "2", "3", "4", "5", "6", "7", "8", "9">>

Lowers == <<"a", "b", "c", "e", "f", "l", "r", "s", "t", "u", "x", "y">>

Uppers == <<"A", "B", "C", "E", "F", "L", "R", "S", "T", "U", "X", "Y">>

Range(f) == {f[i] : i \in DOMAIN f}

IndexOf(seq, c) == CHOOSE i \in DOMAIN seq : seq[i] = c

IsDigit(c) == c \in Range(Digits)

DigitVal(c) == IndexOf(Digits, c) - 1

IsDigits(s) == Len(s) > 0 /\ \A i \in DOMAIN s : IsDigit(s[i])

RECURSIVE DigitsVal(_)
DigitsVal(s) ==
    IF s = <<>> THEN 0
    ELSE 10 * DigitsVal(SubSeq(s, 1, Len(s) - 1)) + DigitVal(s[Len(s)])

RECURSIVE Pow10(_)
Pow10(n) == IF n = 0 THEN 1 ELSE 10 * Pow10(n - 1)

\* str.lower / str.upper on one character
LowerChar(c) == IF c \in Range(Uppers) THEN Lowers[IndexOf(Uppers, c)] ELSE c

UpperChar(c) == IF c \in Range(Lowers) THEN Uppers[IndexOf(Lowers, c)] ELSE c

IsLetter(c) == c \in Range(Lowers) \cup Range(Uppers)

Lower(s) == [i \in DOMAIN s |-> LowerChar(s[i])]

Upper(s) == [i \in DOMAIN s |-> UpperChar(s[i])]

\* str.title: a letter that follows a non-letter (or starts the text) is
\* upper-cased, every other letter is lower-cased
Title(s) ==
    [i \in DOMAIN s |->
        IF i = 1 \/ ~IsLetter(s[i - 1]) THEN UpperChar(s[i]) ELSE LowerChar(s[i])]

(***************************************************************************)
(* Cells, columns and tables (pandas Series / DataFrame)                   *)
(***************************************************************************)
NaN == [k |-> "nan", num |-> 0, den |-> 1, s |-> <<>>]

NaT == [k |-> "nat", num |-> 0, den |-> 1, s |-> <<>>]

Num(n, d) == [k |-> "num", num |-> n, den |-> d, s |-> <<>>]

Str(s) == [k |-> "str", num |-> 0, den |-> 1, s |-> s]

Bool(b) == [k |-> "bool", num |-> IF b THEN 1 ELSE 0, den |-> 1, s |-> <<>>]

Timestamp(n) == [k |-> "dt", num |-> n, den |-> 1, s |-> <<>>]

\* Series.isna()
IsNa(c) == c.k \in {"nan", "nat"}

Column(name, dtype, vals) == [name |-> name, dtype |-> dtype, vals |-> vals]

\* a DataFrame: n rows, the columns in order
Frame(n, cols) == [n |-> n, cols |-> cols]

ColumnNames(t) == [i \in DOMAIN t.cols |-> t.cols[i].name]

HasColumn(t, name) == \E i \in DOMAIN t.cols : t.cols[i].name = name

\* df[name]: the first column of that name
ColIndex(t, name) ==
    CHOOSE i \in DOMAIN t.cols :
        /\ t.cols[i].name = name
        /\ \A j \in DOMAIN t.cols : t.cols[j].name = name => i <= j

Col(t, name) == t.cols[ColIndex(t, name)]

RECURSIVE SelectSeq2(_, _)
\* the elements of seq for which keep[i] holds, in order
SelectSeq2(seq, keep) ==
    IF seq = <<>> THEN <<>>
    ELSE LET n == Len(seq)
             front == SelectSeq2(SubSeq(seq, 1, n - 1), SubSeq(keep, 1, n - 1))
         IN  IF keep[n] THEN Append(front, seq[n]) ELSE front

IsNumericDtype(dtype) == dtype \in {"int64", "float64"}

\* select_dtypes(include='number').columns.tolist()
NumericCols(t) ==
    SelectSeq2(ColumnNames(t),
               [i \in DOMAIN t.cols |-> IsNumericDtype(t.cols[i].dtype)])

\* select_dtypes(include='object').columns.tolist()
ObjectCols(t) ==
    SelectSeq2(ColumnNames(t), [i \in DOMAIN t.cols |-> t.cols[i].dtype = "object"])

RECURSIVE GCD(_, _)
GCD(a, b) == IF b = 0 THEN a ELSE GCD(b, a % b)

Abs(n) == IF n < 0 THEN 0 - n ELSE n

\* the number n / d in lowest terms, d > 0
Ratio(n, d) ==
    LET g == GCD(Abs(n), Abs(d))
        sgn == IF d < 0 THEN 0 - 1 ELSE 1
    IN  Num(sgn * (n \div g), sgn * (d \div g))

(***************************************************************************)
(* pd.read_csv: the uploaded file is a header and rows of text fields; the *)
(* dtype of a column is inferred from its fields.                          *)
(***************************************************************************)
IsInt(f) ==
    \/ IsDigits(f)
    \/ Len(f) > 1 /\ f[1] = "-" /\ IsDigits(SubSeq(f, 2, Len(f)))

IntVal(f) ==
    IF f[1] = "-" THEN 0 - DigitsVal(SubSeq(f, 2, Len(f))) ELSE DigitsVal(f)

IsDecimal(f) ==
    \E i \in DOMAIN f :
        /\ f[i] = "."
        /\ IsInt(SubSeq(f, 1, i - 1))
        /\ IsDigits(SubSeq(f, i + 1, Len(f)))

DecimalVal(f) ==
    LET i == CHOOSE j \in DOMAIN f : f[j] = "."
        whole == SubSeq(f, 1, i - 1)
        frac == SubSeq(f, i + 1, Len(f))
        scale == Pow10(Len(frac))
        mag == DigitsVal(IF whole[1] = "-" THEN SubSeq(whole, 2, Len(whole)) ELSE whole)
                 * scale + DigitsVal(frac)
    IN  Ratio(IF whole[1] = "-" THEN 0 - mag ELSE mag, scale)

TrueText == {<<"T", "r", "u", "e">>, <<"t", "r", "u", "e">>, <<"T", "R", "U", "E">>}

FalseText == {<<"F", "a", "l", "s", "e">>, <<"f", "a", "l", "s", "e">>,
              <<"F", "A", "L", "S", "E">>}

\* the cell a field of a column of that kind is read as
ReadField(kind, f) ==
    IF f = <<>> THEN NaN
    ELSE IF kind = "int" THEN Num(IntVal(f), 1)
    ELSE IF kind = "float" THEN (IF IsInt(f) THEN Num(IntVal(f), 1) ELSE DecimalVal(f))
    ELSE IF kind = "bool" THEN Bool(f \in TrueText)
    ELSE Str(f)

ReadColumn(name, fields) ==
    LET present == {i \in DOMAIN fields : fields[i] # <<>>}
        anyMissing == present # DOMAIN fields
        kind == IF \A i \in present : IsInt(fields[i]) THEN "int"
                ELSE IF \A i \in present : IsInt(fields[i]) \/ IsDecimal(fields[i])
                THEN "float"
                ELSE IF \A i \in present : fields[i] \in TrueText \cup FalseText
                THEN "bool"
                ELSE "text"
        dtype == IF fields = <<>> THEN "object"
                 ELSE IF kind = "int" /\ ~anyMissing THEN "int64"
                 ELSE IF kind \in {"int", "float"} THEN "float64"
                 ELSE IF kind = "bool" /\ ~anyMissing THEN "bool"
                 ELSE "object"
    IN  Column(name, dtype, [i \in DOMAIN fields |-> ReadField(kind, fields[i])])

ReadCsv(file) ==
    Frame(Len(file.rows),
          [j \in DOMAIN file.header |->
              ReadColumn(file.header[j],
                         [i \in DOMAIN file.rows |-> file.rows[i][j]])])

(***************************************************************************)
(* Detect date-like columns                                                *)
(***************************************************************************)
SeparatorsWithoutSpace == {"/", ".", "-", ","}

\* the character class of the regular expression [\/\.\-, ]
Separators == {"/", ".", "-", ",", " "}

\* Series.str raises AttributeError unless the values are strings (or missing)
StrAccessorRaises(c) == \E i \in DOMAIN c.vals : c.vals[i].k \notin {"str", "nan"}

\* one value of Series.str.contains: missing stays missing (not truthy in any())
CellContains(cell) == cell.k = "str" /\ \E i \in DOMAIN cell.s : cell.s[i] \in Separators

\* df[col].str.contains(r"[\/\.\-, ]").any()
ContainsAny(c) == \E i \in DOMAIN c.vals : CellContains(c.vals[i])

RECURSIVE DetectDateCols(_, _)
\* the loop over df.columns, from column i on
DetectDateCols(t, i) ==
    IF i > Len(t.cols) THEN <<>>
    ELSE LET c == t.cols[i]
             rest == DetectDateCols(t, i + 1)
         IN  IF c.dtype = "object"
             THEN IF StrAccessorRaises(c) THEN rest
                  ELSE IF ContainsAny(c) THEN <<c.name>> \o rest
                  ELSE rest
             ELSE rest

(***************************************************************************)
(* Tabs                                                                    *)
(***************************************************************************)
TabNames(date_cols) ==
    <<"Preview", "Transform", "Chart Guide">>
        \o (IF date_cols # <<>> THEN <<"Time Series">> ELSE <<>>)
        \o <<"Visuals">>

\* handles are positions in the list st.tabs returns (from 1; the code's
\* tabs[k] is position k + 1); 0 is None
TabTime(date_cols) == IF date_cols # <<>> THEN 4 ELSE 0

TabVisualsFixed(date_cols) == 4

TabVisuals(date_cols) == IF date_cols # <<>> THEN 5 ELSE 4

(***************************************************************************)
(* Statistics of a column (Series.mean / median / mode / std / min / max)  *)
(***************************************************************************)
\* the order of the characters of the model by code point
CodePoints ==
    <<" ", ",", "-", ".", "/">> \o Digits \o Uppers \o Lowers

RECURSIVE TextLess(_, _)
TextLess(a, b) ==
    IF b = <<>> THEN FALSE
    ELSE IF a = <<>> THEN TRUE
    ELSE IF a[1] = b[1] THEN TextLess(Tail(a), Tail(b))
    ELSE IndexOf(CodePoints, a[1]) < IndexOf(CodePoints, b[1])

\* the order sort() puts two values of one column in
CellLess(a, b) ==
    IF a.k = "str" /\ b.k = "str" THEN TextLess(a.s, b.s)
    ELSE a.num * b.den < b.num * a.den

\* the positions of the values that are not missing
Present(c) == {i \in DOMAIN c.vals : ~IsNa(c.vals[i])}

\* whether a numeric reduction raises TypeError: text cannot be summed
NotNumeric(c) == \E i \in Present(c) : c.vals[i].k = "str"

RECURSIVE SumOver(_, _)
\* the sum of the values at the positions S, as a ratio
SumOver(c, S) ==
    IF S = {} THEN Num(0, 1)
    ELSE LET i == CHOOSE j \in S : TRUE
             r == SumOver(c, S \ {i})
             v == c.vals[i]
         IN  Ratio(r.num * v.den + v.num * r.den, r.den * v.den)

Mean(c) ==
    IF Present(c) = {} THEN NaN
    ELSE LET t == SumOver(c, Present(c))
         IN  Ratio(t.num, t.den * Cardinality(Present(c)))

\* the position of the value with exactly r values before it in sorted order
\* (ties are broken by position)
Ranked(c, r) ==
    CHOOSE i \in Present(c) :
        Cardinality({j \in Present(c) :
                        \/ CellLess(c.vals[j], c.vals[i])
                        \/ ~CellLess(c.vals[i], c.vals[j]) /\ j < i}) = r

Median(c) ==
    LET n == Cardinality(Present(c))
    IN  IF n = 0 THEN NaN
        ELSE IF n % 2 = 1 THEN c.vals[Ranked(c, n \div 2)]
        ELSE LET a == c.vals[Ranked(c, n \div 2 - 1)]
                 b == c.vals[Ranked(c, n \div 2)]
             IN  Ratio(a.num * b.den + b.num * a.den, 2 * a.den * b.den)

Count(c, v) == Cardinality({i \in Present(c) : c.vals[i] = v})

\* Series.mode(): the most frequent values, sorted; empty when all are missing
Modes(c) ==
    {c.vals[i] : i \in {j \in Present(c) :
                           \A k \in Present(c) :
                               Count(c, c.vals[k]) <= Count(c, c.vals[j])}}

\* mode()[0]
FirstMode(c) == CHOOSE v \in Modes(c) : \A w \in Modes(c) : ~CellLess(w, v)

Min(c) == c.vals[Ranked(c, 0)]

Max(c) == c.vals[Ranked(c, Cardinality(Present(c)) - 1)]

(***************************************************************************)
(* Transform tab                                                           *)
(***************************************************************************)
\* the subsequence of a column's values in the rows where keep holds
KeepRows(t, keep) ==
    Frame(Len(SelectSeq2([i \in 1..t.n |-> i], keep)),
          [j \in DOMAIN t.cols |->
              [t.cols[j] EXCEPT !.vals = SelectSeq2(t.cols[j].vals, keep)]])

\* df_copy.dropna(subset=drop_cols, inplace=True)
DropNa(t, drop_cols) ==
    KeepRows(t, [i \in 1..t.n |->
                    \A name \in Range(drop_cols) : ~IsNa(Col(t, name).vals[i])])

\* df_copy[name] = column with the values given: replaced in place when the
\* name exists, appended otherwise
SetColumn(t, c) ==
    IF HasColumn(t, c.name)
    THEN [t EXCEPT !.cols[ColIndex(t, c.name)] = c]
    ELSE [t EXCEPT !.cols = Append(t.cols, c)]

\* Series.fillna(v): the dtype is kept unless a value of another kind goes in
FillNa(c, v) ==
    LET hole == \E i \in DOMAIN c.vals : IsNa(c.vals[i])
        dtype == IF ~hole THEN c.dtype
                 ELSE IF v.k = "str" THEN "object"
                 ELSE IF v.k = "num" /\ c.dtype = "int64" THEN "float64"
                 ELSE c.dtype
    IN  Column(c.name, dtype,
               [i \in DOMAIN c.vals |-> IF IsNa(c.vals[i]) THEN v ELSE c.vals[i]])

\* the body of the try block of "Fill Nulls": the table afterwards and whether
\* an exception was raised.  A fill with the missing marker itself (the mean
\* or median of no values) fills nothing and raises nothing.
FillNulls(t, fill_col, fill_method, custom_val) ==
    LET c == Col(t, fill_col)
        raises == CASE fill_method \in {"Mean", "Median"} -> NotNumeric(c)
                    [] fill_method = "Mode" -> Modes(c) = {}
                    [] OTHER -> FALSE
        v == CASE fill_method = "Mean" -> Mean(c)
               [] fill_method = "Median" -> Median(c)
               [] fill_method = "Mode" -> FirstMode(c)
               [] OTHER -> Str(custom_val)
    IN  IF raises THEN [raised |-> TRUE, t |-> t]
        ELSE [raised |-> FALSE,
              t |-> IF IsNa(v) THEN t
                    ELSE [t EXCEPT !.cols[ColIndex(t, fill_col)] = FillNa(c, v)]]

CaseOp(str_op, s) ==
    CASE str_op = "Lowercase" -> Lower(s)
      [] str_op = "Uppercase" -> Upper(s)
      [] OTHER -> Title(s)

\* df_copy[str_col] = df_copy[str_col].str.lower() / upper() / title()
StringTransform(t, str_col, str_op) ==
    LET c == Col(t, str_col)
    IN  IF StrAccessorRaises(c) THEN [raised |-> TRUE, t |-> t]
        ELSE [raised |-> FALSE,
              t |-> [t EXCEPT !.cols[ColIndex(t, str_col)].vals =
                        [i \in DOMAIN c.vals |->
                            IF c.vals[i].k = "str"
                            THEN Str(CaseOp(str_op, c.vals[i].s))
                            ELSE c.vals[i]]]]

\* df_copy.rename(columns={old_col: new_col}, inplace=True): every column of
\* that name
Rename(t, old_col, new_col) ==
    [t EXCEPT !.cols =
        [j \in DOMAIN t.cols |->
            IF t.cols[j].name = old_col
            THEN [t.cols[j] EXCEPT !.name = new_col]
            ELSE t.cols[j]]]

\* (x - mean) / std: the deviation from the mean is computed; the division by
\* the standard deviation is kept symbolic (kind "zs"), and is the missing
\* marker when fewer than two values are present or all are equal
ZScore(c) ==
    LET m == Mean(c)
        flat == \A i, j \in Present(c) : c.vals[i] = c.vals[j]
    IN  [i \in DOMAIN c.vals |->
            IF IsNa(c.vals[i]) \/ Cardinality(Present(c)) < 2 \/ flat THEN NaN
            ELSE [Ratio(c.vals[i].num * m.den - m.num * c.vals[i].den,
                        c.vals[i].den * m.den) EXCEPT !.k = "zs"]]

\* (x - min) / (max - min): 0 / 0 is the missing marker
MinMax(c) ==
    [i \in DOMAIN c.vals |->
        IF IsNa(c.vals[i]) THEN NaN
        ELSE LET lo == Min(c)
                 hi == Max(c)
                 x == c.vals[i]
                 range == Ratio(hi.num * lo.den - lo.num * hi.den, hi.den * lo.den)
                 off == Ratio(x.num * lo.den - lo.num * x.den, x.den * lo.den)
             IN  IF range.num = 0 THEN NaN
                 ELSE Ratio(off.num * range.den, off.den * range.num)]

NumericTransform(t, trans_col, method) ==
    LET c == Col(t, trans_col)
    IN  IF method = "Standardization (Z-score)"
        THEN SetColumn(t, Column(trans_col \o "_zscore", "float64", ZScore(c)))
        ELSE SetColumn(t, Column(trans_col \o "_norm", "float64", MinMax(c)))

(***************************************************************************)
(* pd.to_datetime(errors='coerce')                                         *)
(***************************************************************************)
\* A text of the form YYYY-MM-DD with a month 1..12 and a day 1..31 is a
\* date; text that is not a date is coerced to NaT.  (The uploaded files of
\* this model hold no other text that a date parser accepts.)
IsIsoDate(s) ==
    /\ Len(s) = 10
    /\ s[5] = "-" /\ s[8] = "-"
    /\ IsDigits(SubSeq(s, 1, 4)) /\ IsDigits(SubSeq(s, 6, 7)) /\ IsDigits(SubSeq(s, 9, 10))
    /\ DigitsVal(SubSeq(s, 6, 7)) \in 1..12
    /\ DigitsVal(SubSeq(s, 9, 10)) \in 1..31

ParseDate(cell) ==
    IF cell.k = "dt" THEN cell
    ELSE IF cell.k = "str" /\ IsIsoDate(cell.s)
    THEN Timestamp(DigitsVal(SubSeq(cell.s, 1, 4)) * 10000
                     + DigitsVal(SubSeq(cell.s, 6, 7)) * 100
                     + DigitsVal(SubSeq(cell.s, 9, 10)))
    ELSE NaT

ToDatetime(c) ==
    Column(c.name, "datetime64", [i \in DOMAIN c.vals |-> ParseDate(c.vals[i])])

(***************************************************************************)
(* One pass of the script.  p is the state of the pass so far: the two     *)
(* tables, the date-like list, the elements written to the page, and       *)
(* whether an exception nobody caught has stopped the script.              *)
(***************************************************************************)
NoColumn == "<None>"

\* an element written to the page: the tab it is in (0: outside the tabs),
\* the st.* call, its text, and the columns a chart is drawn from
Element(tab, kind, text, x, y) ==
    [tab |-> tab, kind |-> kind, text |-> text, x |-> x, y |-> y]

Write(p, e) == [p EXCEPT !.page = Append(p.page, e)]

\* an exception outside any try block: Streamlit shows it and the script stops
Uncaught(p, tab, text) ==
    [Write(p, Element(tab, "exception", text, NoColumn, NoColumn)) EXCEPT !.crashed = TRUE]

NoClick ==
    [button |-> "none", col |-> NoColumn, opt |-> "", custom |-> <<>>, new_col |-> ""]

\* lines 29-55: read the file, copy it, detect the date-like columns
Load(file) ==
    LET df0 == ReadCsv(file)
    IN  [df |-> df0, df_copy |-> df0, date_cols |-> DetectDateCols(df0, 1),
         page |-> <<>>, crashed |-> FALSE]

\* lines 85-88
DropNulls(p, drop_cols) ==
    IF ~p.crashed /\ drop_cols # <<>> THEN [p EXCEPT !.df_copy = DropNa(p.df_copy, drop_cols)] ELSE p

\* lines 90-109
FillMissing(p, click) ==
    IF p.crashed \/ click.button # "fill" THEN p
    ELSE LET r == FillNulls(p.df_copy, click.col, click.opt, click.custom)
         IN  IF r.raised
             THEN Write(p, Element(2, "error", "fill failed", click.col, NoColumn))
             ELSE Write([p EXCEPT !.df_copy = r.t],
                        Element(2, "success", "Nulls filled", click.col, NoColumn))

\* lines 111-123
StringOps(p, click) ==
    IF p.crashed \/ ObjectCols(p.df_copy) = <<>> \/ click.button # "string" THEN p
    ELSE LET r == StringTransform(p.df_copy, click.col, click.opt)
         IN  IF r.raised
             THEN Uncaught(p, 2, "AttributeError")
             ELSE Write([p EXCEPT !.df_copy = r.t],
                        Element(2, "success", click.opt \o " applied", click.col, NoColumn))

\* lines 125-130
RenameColumns(p, click) ==
    IF ~p.crashed /\ click.button = "rename" /\ click.new_col # ""
    THEN Write([p EXCEPT !.df_copy = Rename(p.df_copy, click.col, click.new_col)],
               Element(2, "success", "Renamed to " \o click.new_col, click.col, NoColumn))
    ELSE p

\* lines 132-142
NumericOps(p, click) ==
    IF p.crashed \/ NumericCols(p.df_copy) = <<>> \/ click.button # "numeric" THEN p
    ELSE Write([p EXCEPT !.df_copy = NumericTransform(p.df_copy, click.col, click.opt)],
               Element(2, "success", click.opt \o " applied", click.col, NoColumn))

\* lines 82-148
TransformTab(p, drop_cols, click) ==
    NumericOps(RenameColumns(StringOps(FillMissing(DropNulls(p, drop_cols), click),
                                       click), click), click)

(***************************************************************************)
(* Chart Guide                                                             *)
(***************************************************************************)
\* the literal of "nunique() < 20"
HighCardinality == 20

\* pd.api.types.is_numeric_dtype: the number dtypes and bool
IsNumericApi(dtype) == dtype \in {"int64", "float64", "bool"}

\* Series.nunique(): the distinct values that are not missing
NUnique(c) == Cardinality({c.vals[i] : i \in Present(c)})

\* the recommendation lines written for a column, lines 154-162
Recommend(c) ==
    IF IsNumericApi(c.dtype) THEN <<"Recommended: Histogram, Boxplot">>
    ELSE IF c.dtype = "datetime64" THEN <<"Recommended: Time Series Line Chart">>
    ELSE IF NUnique(c) < HighCardinality THEN <<"Recommended: Bar Chart, Pie Chart">>
    ELSE <<"Try sampling or custom plots.", "Recommended: Violin Plot, KDE Plot">>

RECURSIVE WriteAll(_, _, _, _)
WriteAll(p, tab, texts, col) ==
    IF texts = <<>> THEN p
    ELSE WriteAll(Write(p, Element(tab, "markdown", Head(texts), col, NoColumn)),
                  tab, Tail(texts), col)

\* lines 151-162
ChartGuide(p, guide_col) ==
    IF p.crashed THEN p
    ELSE WriteAll(p, 3, Recommend(Col(p.df, guide_col)), guide_col)

(***************************************************************************)
(* Time Series                                                             *)
(***************************************************************************)
\* lines 170-179.  The column is converted in df itself.  With no numeric
\* column the second selectbox returns None and the lookup of line 179
\* raises KeyError, outside any try block.  (The sorted copy of line 178 is
\* local to the chart call.)
TimeSeries(p, date_col, value_col) ==
    IF p.crashed \/ TabTime(p.date_cols) = 0 THEN p
    ELSE LET q == [p EXCEPT !.df = SetColumn(p.df, ToDatetime(Col(p.df, date_col)))]
         IN  IF value_col = NoColumn
             THEN Uncaught(q, TabTime(p.date_cols), "KeyError")
             ELSE Write(q, Element(TabTime(p.date_cols), "line_chart", "Time Series",
                                   date_col, value_col))

(***************************************************************************)
(* Visuals: the chart dispatcher                                           *)
(***************************************************************************)
ChartTypes ==
    <<"Histogram", "Pie Chart", "Bar Chart", "Line Chart", "Boxplot", "Scatter Plot",
      "Violin Plot", "KDE Plot", "Heatmap", "Pairplot", "Treemap", "Area Chart",
      "Correlation Matrix", "Donut Chart", "Hexbin Plot">>

\* df[selected_cols].select_dtypes(include='number').columns.tolist()
SelectedNumeric(t, selected_cols) ==
    SelectSeq2(selected_cols,
               [i \in DOMAIN selected_cols |->
                   IsNumericDtype(Col(t, selected_cols[i]).dtype)])

\* numeric_df.empty: no column or no row
NumericEmpty(t, selected_cols) == SelectedNumeric(t, selected_cols) = <<>> \/ t.n = 0

EnoughColumnsOffByOne(selected_cols) == Len(selected_cols) > 2

\* "len(selected_cols) >= 2" of the two-column branches
EnoughColumns(selected_cols) == Len(selected_cols) >= 2

HexbinReadyOffByOne(numeric_cols) == Len(numeric_cols) > 2

\* "len(numeric_cols) >= 2" of the hexbin branch
HexbinReady(numeric_cols) == Len(numeric_cols) >= 2

Call(kind, x, y) == [kind |-> kind, x |-> x, y |-> y]

NoCall == Call("none", NoColumn, NoColumn)

\* The branch of lines 195-262 taken for a non-empty selection: the call that
\* shows something ("pyplot", "area_chart", "dataframe", "warning") with the
\* columns it is given, or no call.
Dispatch(t, selected_cols, chart_type) ==
    LET first == selected_cols[1]
        numeric == SelectedNumeric(t, selected_cols)
    IN  IF chart_type \in {"Histogram", "Pie Chart", "Bar Chart"}
        THEN Call("pyplot", first, NoColumn)
        ELSE IF chart_type \in {"Line Chart", "Boxplot", "Scatter Plot", "Violin Plot",
                                "KDE Plot"} /\ EnoughColumns(selected_cols)
        THEN Call("pyplot", first, selected_cols[2])
        ELSE IF chart_type \in {"Heatmap", "Pairplot"}
        THEN IF ~NumericEmpty(t, selected_cols)
             THEN Call("pyplot", NoColumn, NoColumn) ELSE NoCall
        ELSE IF chart_type = "Treemap"
        THEN Call("pyplot", first, NoColumn)
        ELSE IF chart_type = "Area Chart"
        THEN IF ~NumericEmpty(t, selected_cols)
             THEN Call("area_chart", NoColumn, NoColumn) ELSE NoCall
        ELSE IF chart_type = "Correlation Matrix"
        THEN IF ~NumericEmpty(t, selected_cols)
             THEN Call("dataframe", NoColumn, NoColumn) ELSE NoCall
        ELSE IF chart_type = "Donut Chart"
        THEN IF Col(t, first).dtype = "object"
             THEN Call("pyplot", first, NoColumn) ELSE NoCall
        ELSE IF chart_type = "Hexbin Plot"
        THEN IF HexbinReady(numeric)
             THEN Call("pyplot", numeric[1], numeric[2])
             ELSE Call("warning", NoColumn, NoColumn)
        ELSE NoCall

\* lines 182-264.  lib_raises: whether the plotting library raises in this
\* pass; the except clause turns that into an error element.
Visuals(p, selected_cols, chart_type, lib_raises) ==
    IF p.crashed \/ selected_cols = <<>> THEN p
    ELSE LET c == Dispatch(p.df, selected_cols, chart_type)
             tab == TabVisuals(p.date_cols)
         IN  IF c.kind = "none" THEN p
             ELSE IF c.kind = "warning"
             THEN Write(p, Element(tab, "warning", chart_type, NoColumn, NoColumn))
             ELSE IF lib_raises
             THEN Write(p, Element(tab, "error", "Chart creation error", NoColumn, NoColumn))
             ELSE Write(p, Element(tab, c.kind, chart_type, c.x, c.y))

\* The chart images the session keeps for an export.  The script stores
\* nothing between passes: a figure goes to st.pyplot and is not kept.
SessionCharts == <<>>

\* the whole script for an uploaded file, lines 29-264
RunPass(file, w, click, lib_raises) ==
    Visuals(TimeSeries(ChartGuide(TransformTab(Load(file), w.drop_cols, click),
                                  w.guide_col),
                       w.date_col, w.value_col),
            w.selected_cols, w.chart_type, lib_raises)

(***************************************************************************)
(* The uploaded files of the model                                         *)
(***************************************************************************)
\* the decimal digits of a number 0..99
DigitsOf(i) ==
    IF i < 10 THEN <<Digits[i + 1]>> ELSE <<Digits[(i \div 10) + 1], Digits[(i % 10) + 1]>>

\* dates, a number with a missing value, text with a space in one value
SalesFile ==
    [header |-> <<"date", "sales", "city">>,
     rows |-> << << <<"2", "0", "2", "1", "-", "0", "1", "-", "0", "2">>, <<"3">>,
                    <<"a", "b">> >>,
                 << <<"2", "0", "2", "1", "-", "0", "1", "-", "0", "1">>, <<>>,
                    <<"A", "b", " ", "c">> >>,
                 << <<>>, <<"5">>, <<"a", "b">> >> >>]

\* no number: a date-like column, plain text, booleans with a missing value
NotesFile ==
    [header |-> <<"day", "note", "flag">>,
     rows |-> << << <<"2", "0", "2", "1", "-", "0", "1", "-", "0", "2">>,
                    <<"a", "b", "c">>, <<"T", "r", "u", "e">> >>,
                 << <<"x", "/", "y">>, <<"A", "b", "c">>, <<>> >> >>]

\* numbers (whole, all missing, negative and decimal) and plain text
NumbersFile ==
    [header |-> <<"a", "b", "c", "t">>,
     rows |-> << << <<"1">>, <<>>, <<"-", "5">>, <<"x">> >>,
                 << <<"2">>, <<>>, <<"1", ".", "5">>, <<"y">> >>,
                 << <<"2">>, <<>>, <<"3">>, <<"x">> >> >>]

\* a text column with as many distinct values as the recommender's limit
IdsFile ==
    [header |-> <<"id">>,
     rows |-> [i \in 1..HighCardinality |-> << <<"a">> \o DigitsOf(i) >>]]

Files == {SalesFile, NotesFile, NumbersFile, IdsFile}

\* uploaded_file is None
NoFile == [header |-> <<>>, rows |-> <<>>]

(***************************************************************************)
(* State                                                                   *)
(***************************************************************************)
VARIABLES
    uploaded_file,  \* the file in the uploader, NoFile when there is none
    drop_cols,      \* "Drop rows with nulls in:" (multiselect)
    guide_col,      \* "Select column" of the Chart Guide (selectbox)
    date_col,       \* "Select a date/time column:" (selectbox)
    value_col,      \* "Select numeric column to plot:" (selectbox)
    selected_cols,  \* "Select columns to visualize:" (multiselect)
    chart_type,     \* "Select chart type:" (selectbox)
    click,          \* the button that was pressed for the last pass, and the
                    \* values of the widgets of its expander
    df,             \* the table as the last pass left it
    df_copy,        \* the working copy as the last pass left it
    date_cols,      \* the date-like list
    tab_names,      \* the labels given to st.tabs
    tab_time,       \* position of the Time Series tab, 0 for None
    tab_visuals,    \* position of the Visuals tab
    page,           \* the elements the last pass wrote
    crashed         \* the last pass was stopped by an uncaught exception

widgets == <<drop_cols, guide_col, date_col, value_col, selected_cols, chart_type>>

vars == <<uploaded_file, widgets, click, df, df_copy, date_cols, tab_names, tab_time,
          tab_visuals, page, crashed>>

Widgets(drop, guide, date, value, selected, chart) ==
    [drop_cols |-> drop, guide_col |-> guide, date_col |-> date, value_col |-> value,
     selected_cols |-> selected, chart_type |-> chart]

\* the values of the widgets now
Current == Widgets(drop_cols, guide_col, date_col, value_col, selected_cols, chart_type)

FirstOr(seq, none) == IF seq = <<>> THEN none ELSE seq[1]

\* the values the widgets take when they first appear: a selectbox its first
\* option (None when it has none), a multiselect nothing
Defaults(file) ==
    LET t == ReadCsv(file)
    IN  Widgets(<<>>, FirstOr(ColumnNames(t), NoColumn),
                FirstOr(DetectDateCols(t, 1), NoColumn),
                FirstOr(NumericCols(t), NoColumn), <<>>, ChartTypes[1])

EmptyFrame == Frame(0, <<>>)

\* lines 266-267: no file, one info element; the widgets do not exist
Init ==
    /\ uploaded_file = NoFile
    /\ drop_cols = <<>> /\ guide_col = NoColumn /\ date_col = NoColumn
    /\ value_col = NoColumn /\ selected_cols = <<>> /\ chart_type = ChartTypes[1]
    /\ click = NoClick
    /\ df = EmptyFrame /\ df_copy = EmptyFrame
    /\ date_cols = <<>> /\ tab_names = <<>> /\ tab_time = 0 /\ tab_visuals = 0
    /\ page = <<Element(0, "info", "Upload a CSV file to begin.", NoColumn, NoColumn)>>
    /\ crashed = FALSE

\* the plotting library can raise only in a pass that calls it
LibOutcomes(w) == IF w.selected_cols = <<>> THEN {FALSE} ELSE BOOLEAN

\* one pass over the file with the widgets at w and the button state c
Rerun(file, w, c) ==
    \E p \in {RunPass(file, w, c, r) : r \in LibOutcomes(w)} :
        /\ uploaded_file' = file
        /\ drop_cols' = w.drop_cols /\ guide_col' = w.guide_col
        /\ date_col' = w.date_col /\ value_col' = w.value_col
        /\ selected_cols' = w.selected_cols /\ chart_type' = w.chart_type
        /\ click' = c
        /\ df' = p.df /\ df_copy' = p.df_copy
        /\ date_cols' = p.date_cols
        /\ tab_names' = TabNames(p.date_cols)
        /\ tab_time' = TabTime(p.date_cols)
        /\ tab_visuals' = TabVisuals(p.date_cols)
        /\ page' = p.page
        /\ crashed' = p.crashed

(***************************************************************************)
(* User actions.  Each one is followed by a pass of the whole script.      *)
(***************************************************************************)
Upload ==
    /\ uploaded_file = NoFile
    /\ \E file \in Files : Rerun(file, Defaults(file), NoClick)

RemoveFile ==
    /\ uploaded_file # NoFile
    /\ uploaded_file' = NoFile
    /\ drop_cols' = <<>> /\ guide_col' = NoColumn /\ date_col' = NoColumn
    /\ value_col' = NoColumn /\ selected_cols' = <<>> /\ chart_type' = ChartTypes[1]
    /\ click' = NoClick
    /\ df' = EmptyFrame /\ df_copy' = EmptyFrame
    /\ date_cols' = <<>> /\ tab_names' = <<>> /\ tab_time' = 0 /\ tab_visuals' = 0
    /\ page' = <<Element(0, "info", "Upload a CSV file to begin.", NoColumn, NoColumn)>>
    /\ crashed' = FALSE

\* the table as read from the file: the options of the widgets come from it
Loaded == ReadCsv(uploaded_file)

\* the tab in which the last pass was stopped, 0 if it ran to the end
CrashTab == IF crashed THEN page[Len(page)].tab ELSE 0

\* A widget can be used only if the last pass reached the line that shows it:
\* the widgets of lines 86-116 always, those of lines 126-153 unless the pass
\* stopped in the Transform tab, those of the Time Series tab if that tab
\* exists, those of the Visuals tab if the pass ran to the end.
ShownEarly == uploaded_file # NoFile

ShownAfterStrings == uploaded_file # NoFile /\ CrashTab # 2

ShownInTimeSeries == uploaded_file # NoFile /\ tab_time # 0 /\ CrashTab # 2

ShownInVisuals == uploaded_file # NoFile /\ ~crashed

Without(seq, c) == SelectSeq2(seq, [i \in DOMAIN seq |-> seq[i] # c])

AddDrop ==
    /\ ShownEarly
    /\ Len(drop_cols) < MaxDrop
    /\ \E c \in Range(ColumnNames(Loaded)) \ Range(drop_cols) :
          Rerun(uploaded_file, [Current EXCEPT !.drop_cols = Append(drop_cols, c)],
                NoClick)

RemoveDrop ==
    /\ ShownEarly
    /\ \E c \in Range(drop_cols) :
          Rerun(uploaded_file, [Current EXCEPT !.drop_cols = Without(drop_cols, c)],
                NoClick)

SelectGuideColumn ==
    /\ ShownAfterStrings
    /\ \E c \in Range(ColumnNames(Loaded)) :
          Rerun(uploaded_file, [Current EXCEPT !.guide_col = c], NoClick)

FillMethods == {"Mean", "Median", "Mode", "Custom Value"}

\* what the user types into "Enter custom value:"
CustomValues == {<<>>, <<"x">>}

ClickFill ==
    /\ ShownEarly
    /\ \E c \in Range(ColumnNames(Loaded)), m \in FillMethods, v \in CustomValues :
          /\ m # "Custom Value" => v = <<>>
          /\ Rerun(uploaded_file, Current,
                   [button |-> "fill", col |-> c, opt |-> m, custom |-> v, new_col |-> ""])

ClickString ==
    /\ ShownEarly
    /\ \E c \in Range(ObjectCols(Loaded)),
          op \in {"Lowercase", "Uppercase", "Title Case"} :
          Rerun(uploaded_file, Current,
                [button |-> "string", col |-> c, opt |-> op, custom |-> <<>>,
                 new_col |-> ""])

\* what the user types into "New column name:"
NewNames == {"", "total"}

ClickRename ==
    /\ ShownAfterStrings
    /\ \E c \in Range(ColumnNames(Loaded)), n \in NewNames :
          Rerun(uploaded_file, Current,
                [button |-> "rename", col |-> c, opt |-> "", custom |-> <<>>,
                 new_col |-> n])

ClickNumeric ==
    /\ ShownAfterStrings
    /\ \E c \in Range(NumericCols(Loaded)),
          m \in {"Standardization (Z-score)", "Normalization (Min-Max)"} :
          Rerun(uploaded_file, Current,
                [button |-> "numeric", col |-> c, opt |-> m, custom |-> <<>>,
                 new_col |-> ""])

SelectDateCol ==
    /\ ShownInTimeSeries
    /\ \E c \in Range(DetectDateCols(Loaded, 1)) :
          Rerun(uploaded_file, [Current EXCEPT !.date_col = c], NoClick)

SelectValueCol ==
    /\ ShownInTimeSeries
    /\ \E c \in Range(NumericCols(Loaded)) :
          Rerun(uploaded_file, [Current EXCEPT !.value_col = c], NoClick)

AddSelected ==
    /\ ShownInVisuals
    /\ Len(selected_cols) < MaxSelected
    /\ \E c \in Range(ColumnNames(Loaded)) \ Range(selected_cols) :
          Rerun(uploaded_file,
                [Current EXCEPT !.selected_cols = Append(selected_cols, c)], NoClick)

RemoveSelected ==
    /\ ShownInVisuals
    /\ \E c \in Range(selected_cols) :
          Rerun(uploaded_file,
                [Current EXCEPT !.selected_cols = Without(selected_cols, c)], NoClick)

SelectChartType ==
    /\ ShownInVisuals
    /\ \E k \in Range(ChartTypes) :
          Rerun(uploaded_file, [Current EXCEPT !.chart_type = k], NoClick)

\* a session in which the user works in the Transform and Chart Guide tabs
NextTransform ==
    \/ Upload
    \/ RemoveFile
    \/ AddDrop
    \/ RemoveDrop
    \/ SelectGuideColumn
    \/ ClickFill
    \/ ClickString
    \/ ClickRename
    \/ ClickNumeric

SpecTransform == Init /\ [][NextTransform]_vars

\* a session in which the user works in the Time Series and Visuals tabs
NextCharts ==
    \/ Upload
    \/ RemoveFile
    \/ SelectDateCol
    \/ SelectValueCol
    \/ AddSelected
    \/ RemoveSelected
    \/ SelectChartType

SpecCharts == Init /\ [][NextCharts]_vars

(***************************************************************************)
(* Properties                                                              *)
(***************************************************************************)
\* the last pass reached the Visuals tab
ReachedVisuals == uploaded_file # NoFile /\ (crashed => CrashTab = tab_visuals)

\* the positions of the elements the last pass wrote in a tab
InTab(tab) == {i \in DOMAIN page : page[i].tab = tab}

Shows(tab, kind) == \E i \in InTab(tab) : page[i].kind = kind

\* the working copy as the last pass had it before the button was handled
BeforeClick == DropNa(Loaded, drop_cols)

\* C1: the original table is never mutated: after every pass df holds
\* exactly the values loaded from the upload.
C1_OriginalNeverMutated == uploaded_file # NoFile => df = Loaded

\* C2: the working copy accumulates: an action that applies no
\* transformation itself (same file, same drop selection, no button) leaves
\* the working copy, with the transformations applied earlier, as it was.
C2_Accumulates ==
    [][(/\ uploaded_file # NoFile
        /\ uploaded_file' = uploaded_file
        /\ drop_cols' = drop_cols
        /\ click'.button = "none") => df_copy' = df_copy]_vars

\* C3: nothing is fatal: no pass is stopped by an exception; every section
\* runs.
C3_NothingFatal == uploaded_file # NoFile => ~crashed

\* C4: a fill with Mean, Median or Mode of a numeric column whose values are
\* all missing reports an error, shows no success message and leaves the
\* column unchanged; when a value is present and the fill succeeds, the
\* column has no missing value afterwards.
C4_FillAllMissing ==
    (/\ uploaded_file # NoFile
     /\ click.button = "fill"
     /\ click.opt \in {"Mean", "Median", "Mode"}) =>
        LET before == Col(BeforeClick, click.col)
            after == Col(df_copy, click.col)
        IN  /\ (IsNumericDtype(before.dtype) /\ Present(before) = {}) =>
                  /\ Shows(2, "error")
                  /\ ~Shows(2, "success")
                  /\ after = before
            /\ (Present(before) # {} /\ Shows(2, "success")) =>
                  \A i \in DOMAIN after.vals : ~IsNa(after.vals[i])

\* the texts of the Chart Guide, in order
GuideTexts ==
    [k \in 1..Cardinality(InTab(3)) |->
        page[CHOOSE i \in InTab(3) : Cardinality({j \in InTab(3) : j < i}) = k - 1].text]

\* C5: the recommendation is decided by the kind of the selected column:
\* numeric, date-like (in the classifier's list), text with fewer than 20
\* distinct values, anything else.
C5_Recommender ==
    (uploaded_file # NoFile /\ CrashTab # 2) =>
        LET c == Col(Loaded, guide_col)
        IN  GuideTexts =
                IF c.dtype \in {"int64", "float64", "bool"}
                THEN <<"Recommended: Histogram, Boxplot">>
                ELSE IF \E i \in DOMAIN date_cols : date_cols[i] = guide_col
                THEN <<"Recommended: Time Series Line Chart">>
                ELSE IF Cardinality({c.vals[i] : i \in Present(c)}) < 20
                THEN <<"Recommended: Bar Chart, Pie Chart">>
                ELSE <<"Try sampling or custom plots.",
                       "Recommended: Violin Plot, KDE Plot">>

\* C6: a chart that was rendered is in the session's chart sequence, once;
\* a failure or a skipped request adds nothing.
C6_ChartsAppended ==
    ReachedVisuals =>
        Len(SessionCharts) = Cardinality({i \in InTab(tab_visuals) : page[i].kind = "pyplot"})

TwoColumnKinds == {"Line Chart", "Boxplot", "Scatter Plot", "Violin Plot", "KDE Plot"}

\* C7: for a two-column chart kind, fewer than two selected columns give no
\* chart, no error, no warning and no exception; two or more give one request
\* to draw the first selected column against the second (which the library
\* answers with the chart, or with an exception shown as an error).
C7_TwoColumnKinds ==
    (ReachedVisuals /\ chart_type \in TwoColumnKinds) =>
        /\ ~crashed
        /\ Len(selected_cols) < 2 => InTab(tab_visuals) = {}
        /\ Len(selected_cols) >= 2 =>
              \E i \in DOMAIN page :
                  /\ InTab(tab_visuals) = {i}
                  /\ \/ page[i].kind = "error"
                     \/ /\ page[i].kind = "pyplot"
                        /\ page[i].text = chart_type
                        /\ page[i].x = selected_cols[1]
                        /\ page[i].y = selected_cols[2]

C7_Witness ==
    /\ ReachedVisuals
    /\ chart_type = "Scatter Plot"
    /\ Len(selected_cols) = 2
    /\ Shows(tab_visuals, "pyplot")

\* the positions in the selection of the columns that are numeric in df
NumericAt == {i \in DOMAIN selected_cols :
                 Col(df, selected_cols[i]).dtype \in {"int64", "float64"}}

\* what C8 says of a hexbin request with two or more numeric columns, and of
\* every other chart kind
HexbinDrawn ==
    /\ (chart_type = "Hexbin Plot" /\ Cardinality(NumericAt) >= 2) =>
          /\ ~Shows(tab_visuals, "warning")
          /\ \E i \in DOMAIN page, a, b \in NumericAt :
                /\ InTab(tab_visuals) = {i}
                /\ a < b /\ \A k \in NumericAt : k = a \/ k >= b
                /\ \/ page[i].kind = "error"
                   \/ /\ page[i].kind = "pyplot"
                      /\ page[i].x = selected_cols[a]
                      /\ page[i].y = selected_cols[b]
    /\ chart_type # "Hexbin Plot" => \A i \in DOMAIN page : page[i].kind # "warning"

HexbinWarned ==
    \E i \in DOMAIN page : InTab(tab_visuals) = {i} /\ page[i].kind = "warning"

\* C8 as stated: every selection with fewer than two numeric columns, the
\* empty one included, gets the warning.
C8_HexbinWarnsAlways ==
    ReachedVisuals =>
        /\ (chart_type = "Hexbin Plot" /\ Cardinality(NumericAt) < 2) => HexbinWarned
        /\ HexbinDrawn

\* C8, amended: in a pass that reaches the dispatcher, a hexbin request with a
\* non-empty selection holding fewer than two numeric columns gets the
\* warning and no chart; with two or more numeric columns the first two of
\* them in selection order are drawn and there is no warning; no other chart
\* kind warns.
C8_HexbinWarnsNonEmpty ==
    ReachedVisuals =>
        /\ (/\ chart_type = "Hexbin Plot"
            /\ selected_cols # <<>>
            /\ Cardinality(NumericAt) < 2) => HexbinWarned
        /\ HexbinDrawn

C8_Witness ==
    /\ ReachedVisuals
    /\ chart_type = "Hexbin Plot"
    /\ Len(selected_cols) = 2
    /\ Cardinality(NumericAt) = 1
    /\ HexbinWarned

\* C9: a column is in the date-like list exactly if it is text-typed and one
\* of its values contains '/', '.', ',', '-' or a space; the list is in the
\* order of the table's columns.
C9_Classifier ==
    uploaded_file # NoFile =>
        /\ \A j \in DOMAIN Loaded.cols :
              (\E a \in DOMAIN date_cols : date_cols[a] = Loaded.cols[j].name) <=>
                  /\ Loaded.cols[j].dtype = "object"
                  /\ \E i \in DOMAIN Loaded.cols[j].vals :
                        /\ Loaded.cols[j].vals[i].k = "str"
                        /\ \E n \in DOMAIN Loaded.cols[j].vals[i].s :
                              Loaded.cols[j].vals[i].s[n] \in {"/", ".", ",", "-", " "}
        /\ \A a, b \in DOMAIN date_cols :
              a < b => \E i, j \in DOMAIN Loaded.cols :
                          /\ i < j
                          /\ Loaded.cols[i].name = date_cols[a]
                          /\ Loaded.cols[j].name = date_cols[b]

C9_Witness ==
    /\ uploaded_file = SalesFile
    /\ date_cols = <<"date", "city">>

\* C10: the Time Series tab exists exactly if the date-like list is not
\* empty; the tabs are Preview, Transform, Chart Guide, [Time Series],
\* Visuals; each handle is the position of the tab of its name, the Visuals
\* handle is the last position (the code's index 4 with date-like columns, 3
\* without) and is not the Time Series handle.
C10_Tabs ==
    uploaded_file # NoFile =>
        /\ tab_time # 0 <=> date_cols # <<>>
        /\ tab_names = IF date_cols # <<>>
                       THEN <<"Preview", "Transform", "Chart Guide", "Time Series", "Visuals">>
                       ELSE <<"Preview", "Transform", "Chart Guide", "Visuals">>
        /\ tab_visuals \in DOMAIN tab_names
        /\ tab_visuals = Len(tab_names)
        /\ tab_names[tab_visuals] = "Visuals"
        /\ tab_visuals - 1 = IF date_cols # <<>> THEN 4 ELSE 3
        /\ tab_time # 0 =>
              /\ tab_time \in DOMAIN tab_names
              /\ tab_names[tab_time] = "Time Series"
              /\ tab_time # tab_visuals

C10_Witness ==
    /\ uploaded_file # NoFile
    /\ date_cols # <<>>
    /\ tab_names[tab_visuals] = "Visuals"
    /\ tab_names[tab_time] = "Time Series"

=============================================================================
